---- MODULE Spec2Model ----
(***************************************************************************)
(* Model of dial-basic-nodes:                                              *)
(*   - TrainingConsoleWidget, SignalsCallback and FitWorker                *)
(*     (training_console/training_console_widget.py),                      *)
(*   - TrainTestTabs (dataset_editor/dataset_table/train_test_tabs.py).    *)
(*                                                                         *)
(* The widget's methods run on the UI thread, one handler at a time.  A    *)
(* FitWorker is a QThread whose run() executes keras' Model.fit; the fit   *)
(* loop is modelled step by step (callback set-up, reset of the model's    *)
(* stop_training flag, epoch begin, batch, epoch end, train end).  The     *)
(* signals a SignalsCallback emits from the worker thread reach the        *)
(* closures connected in start_training through the UI thread's event      *)
(* queue (the receiver lives in the UI thread), while training_stopped is  *)
(* emitted on the UI thread and calls stop_model directly.                 *)
(***************************************************************************)
EXTENDS Integers, Sequences, FiniteSets, TLC

\* Bounds of the model.
MaxRuns == 2
MaxModels == 2
CallsMaxRuns == 1
CallsMaxModels == 1
FairMaxRuns == 1
FairMaxModels == 1
MaxCallbacks == 3

\* SignalsCallback.__init__: batches_between_updates: int = 100
DefaultBatchesBetweenUpdates == 100

None == "None"

\* TrainingConsoleWidget.TrainingStatus
Running == "Running"
Stopped == "Stopped"
Not_Compiled == "Not_Compiled"
TrainingStatus == {Running, Stopped, Not_Compiled}

\* Externally constructed objects the widget holds references to.
\*   "pm"      a keras model that accepts the dataset's input shape
\*   "pm_bad"  a keras model that raises when called on the new Input layer
\*   "ds"      a Dataset with one batch
\*   "hp0"     the empty dict, "hp1"/"hp2" dicts with epochs 1/2,
\*   "hp_bad"  a dict whose optimizer keras' compile rejects
PretrainedModels == {"pm", "pm_bad"}
Datasets == {"ds"}
Hyperparameters == {"hp0", "hp1", "hp2", "hp_bad"}

\* Dataset.__len__ as used by len(self.__train_dataset)
DatasetLen(d) == IF d = "ds" THEN 1 ELSE 0

\* hyperparameters["epochs"]
Epochs(h) == IF h = "hp2" THEN 2 ELSE 1

\* Python truth value of the three inputs (`not x`)
Truthy(x) == x \notin {None, "hp0"}

VARIABLES
    \* TrainingConsoleWidget fields
    pretrained_model, train_dataset, hyperparameters, trained_model,
    training_status,
    start_training_button, stop_training_button, status_label,
    batch_progress_bar, epoch_progress_bar, training_output_textbox,
    \* keras Model objects created by compile_model (the heap)
    models,
    \* FitWorkers / SignalsCallbacks, one per run, and the UI thread's queue
    fit_workers, nruns, ui_queue,
    \* what the last UI-thread handler did
    last,
    \* SignalsCallback driven on its own (relay specification)
    delivered, emitted,
    \* TrainTestTabs: the widget, the pickled triple, the rebuilt widget
    tabs, pickled, rebuilt

consoleVars == <<pretrained_model, train_dataset, hyperparameters, trained_model,
                 training_status, start_training_button, stop_training_button,
                 status_label, batch_progress_bar, epoch_progress_bar,
                 training_output_textbox, models, fit_workers, nruns, ui_queue,
                 last>>
relayVars == <<delivered, emitted>>
tabsVars == <<tabs, pickled, rebuilt>>
vars == <<consoleVars, relayVars, tabsVars>>

-----------------------------------------------------------------------------
(* SignalsCallback                                                         *)

\* on_epoch_begin: self.epoch_begin.emit(epoch, logs)
on_epoch_begin(epoch, logs) == << [sig |-> "epoch_begin", args |-> <<epoch, logs>>] >>

\* on_epoch_end: self.epoch_end.emit(epoch, logs)
on_epoch_end(epoch, logs) == << [sig |-> "epoch_end", args |-> <<epoch, logs>>] >>

on_train_batch_end_always(batch, logs, batches_between_updates) ==
    << [sig |-> "train_batch_end", args |-> <<batch, logs>>] >>

\* on_train_batch_end: emit only if batch % self.batches_between_updates == 0
on_train_batch_end(batch, logs, batches_between_updates) ==
    IF batch % batches_between_updates = 0
    THEN << [sig |-> "train_batch_end", args |-> <<batch, logs>>] >>
    ELSE << >>

\* on_train_end: self.train_end.emit(logs)
on_train_end(logs) == << [sig |-> "train_end", args |-> <<logs>>] >>

-----------------------------------------------------------------------------
(* QProgressBar (minimum is always 0)                                      *)

\* QProgressBar.setMaximum: the value is reset when it falls out of range
setMaximum(bar, m) ==
    LET mx == IF m < 0 THEN 0 ELSE m
    IN  IF mx = bar.maximum THEN bar
        ELSE IF bar.value < -1 \/ bar.value > mx
             THEN [maximum |-> mx, value |-> -1]
             ELSE [bar EXCEPT !.maximum = mx]

\* QProgressBar.setValue: out-of-range values are ignored unless the bar is 0..0
setValue(bar, v) ==
    IF v = bar.value \/ ((v > bar.maximum \/ v < 0) /\ bar.maximum # 0)
    THEN bar
    ELSE [bar EXCEPT !.value = v]

-----------------------------------------------------------------------------
(* TrainingConsoleWidget                                                   *)

\* The record a UI-thread handler leaves behind:
\*   op       the handler ("" after a step of a worker thread), run the run
\*            it concerns
\*   path     the branch the handler took
\*   raised   the exception that left the handler ("" if it returned)
\*   effects  status changes, thread starts and signal emissions, in order
\*   slot_errors  runs whose stop_model slot raised during the emission
\*   pre_status   the status start_training found ("" for the other handlers)
Done(op, run, path, raised, effects, slot_errors) ==
    [op |-> op, run |-> run, path |-> path, raised |-> raised,
     effects |-> effects, slot_errors |-> slot_errors, pre_status |-> ""]

\* training_status setter: the third branch compares self.__train_dataset
\* (ds) with TrainingStatus.Not_Compiled
SetStatus(new_status, ds) ==
    /\ training_status' = new_status
    /\ IF new_status = Running
       THEN /\ start_training_button' = FALSE
            /\ stop_training_button' = TRUE
            /\ status_label' = "Running"
       ELSE IF new_status = Stopped
       THEN /\ start_training_button' = TRUE
            /\ stop_training_button' = FALSE
            /\ status_label' = "Stopped"
       ELSE IF ds = Not_Compiled
       THEN /\ start_training_button' = TRUE
            /\ stop_training_button' = FALSE
            /\ status_label' = "Not Compiled"
       ELSE UNCHANGED <<start_training_button, stop_training_button, status_label>>

statusVars == <<training_status, start_training_button, stop_training_button,
                status_label>>

\* __init__: QPushButton() is enabled, QLabel() is empty, QProgressBar() is
\* 0..100 with value -1; then self.training_status = Not_Compiled (whose
\* branch is not taken, __train_dataset being None)
InitConsole ==
    /\ pretrained_model = None
    /\ train_dataset = None
    /\ hyperparameters = None
    /\ trained_model = 0
    /\ training_status = Not_Compiled
    /\ start_training_button = TRUE
    /\ stop_training_button = TRUE
    /\ status_label = ""
    /\ batch_progress_bar = [maximum |-> 100, value |-> -1]
    /\ epoch_progress_bar = [maximum |-> 100, value |-> -1]
    /\ training_output_textbox = << >>
    /\ models = << >>
    /\ fit_workers = [r \in 1..(MaxRuns) |->
                        [pc |-> "unborn", model |-> 0, ds |-> None, hp |-> None,
                         cb_model |-> 0, epoch |-> 0, batch |-> 0]]
    /\ nruns = 0
    /\ ui_queue = << >>
    /\ last = Done("__init__", 0, "", "", << >>, {})

\* set_train_dataset
set_train_dataset(d) ==
        /\ train_dataset' = d
        /\ SetStatus(Not_Compiled, d)
        /\ last' = Done("set_train_dataset", 0, "", "", << >>, {})
        /\ UNCHANGED <<relayVars, tabsVars, pretrained_model, hyperparameters, trained_model,
                       batch_progress_bar, epoch_progress_bar,
                       training_output_textbox, models, fit_workers, nruns,
                       ui_queue>>

\* set_pretrained_model
set_pretrained_model(p) ==
        /\ pretrained_model' = p
        /\ SetStatus(Not_Compiled, train_dataset)
        /\ last' = Done("set_pretrained_model", 0, "", "", << >>, {})
        /\ UNCHANGED <<relayVars, tabsVars, train_dataset, hyperparameters, trained_model,
                       batch_progress_bar, epoch_progress_bar,
                       training_output_textbox, models, fit_workers, nruns,
                       ui_queue>>

\* set_hyperparameters
set_hyperparameters(h) ==
        /\ hyperparameters' = h
        /\ SetStatus(Not_Compiled, train_dataset)
        /\ last' = Done("set_hyperparameters", 0, "", "", << >>, {})
        /\ UNCHANGED <<relayVars, tabsVars, pretrained_model, train_dataset, trained_model,
                       batch_progress_bar, epoch_progress_bar,
                       training_output_textbox, models, fit_workers, nruns,
                       ui_queue>>

\* get_trained_model
get_trained_model == trained_model

\* __is_input_ready: the message lines, one per falsy input
input_message ==
    (IF ~Truthy(train_dataset) THEN << "> Training dataset not specified" >> ELSE << >>)
    \o (IF ~Truthy(pretrained_model) THEN << "> Model not specified." >> ELSE << >>)
    \o (IF ~Truthy(hyperparameters) THEN << "> Hyperparameters not specified." >> ELSE << >>)

is_input_ready_no_hyperparameters ==
    Truthy(train_dataset) /\ Truthy(pretrained_model)

\* __is_input_ready: True iff the message is empty
is_input_ready == input_message = << >>

\* QPlainTextEdit.setPlainText(message): every line of the message ends
\* with "\n", so the document ends with an empty block
setPlainText(lines) == lines \o << "" >>

\* compile_model, lines 203-206: Input(self.__train_dataset.input_shape) and
\* self.__pretrained_model(input_layer), outside the try block
BuildRaises ==
    train_dataset = None \/ pretrained_model = None \/ pretrained_model = "pm_bad"

\* compile_model, lines 209-213: hyperparameters["optimizer"],
\* hyperparameters["loss_function"] and keras' compile, inside the try block
CompileRaises == hyperparameters \notin {"hp1", "hp2"}

\* a keras Model as compile_model creates it (Model.stop_training is False)
NewModel(compiled) ==
    [pm |-> pretrained_model, ds |-> train_dataset, hp |-> hyperparameters,
     compiled |-> compiled, stop_training |-> FALSE]

\* The branch start_training takes: compile_model when Not_Compiled, then
\* len(self.__train_dataset) and self.__hyperparameters["epochs"]
StartPath ==
    LET rest == IF train_dataset = None THEN "len_raised"
                ELSE IF hyperparameters \in {None, "hp0"} THEN "epochs_raised"
                ELSE "started"
    IN  IF training_status = Not_Compiled
        THEN IF ~is_input_ready THEN "not_ready"
             ELSE IF BuildRaises THEN "build_raised"
             ELSE IF CompileRaises THEN "compile_raised"
             ELSE rest
        ELSE rest

\* the exception that leaves start_training on each raising branch; on
\* "compile_raised" it is the TypeError of the two-argument setPlainText
\* call in the except block
StartRaised(path) ==
    CASE path = "build_raised" ->
           IF train_dataset = None THEN "AttributeError"
           ELSE IF pretrained_model = None THEN "TypeError" ELSE "ValueError"
      [] path = "compile_raised" -> "TypeError"
      [] path = "len_raised" -> "TypeError"
      [] path = "epochs_raised" -> IF hyperparameters = None THEN "TypeError" ELSE "KeyError"
      [] OTHER -> ""

\* a FitWorker and its SignalsCallback right after FitWorker(...).start()
NewWorker(model) ==
    [pc |-> "started", model |-> model, ds |-> train_dataset,
     hp |-> hyperparameters, cb_model |-> 0, epoch |-> 0, batch |-> 0]

\* start_training (the Start button's clicked signal is connected to it)
start_training(max_runs, max_models) ==
      LET path == StartPath
          compiles == training_status = Not_Compiled
                      /\ path \in {"compile_raised", "started"}
          model == IF compiles THEN Len(models) + 1 ELSE trained_model
          run == nruns + 1
      IN
      /\ compiles => Len(models) < max_models
      /\ path = "started" => nruns < max_runs
      /\ trained_model' = model
      /\ models' = IF compiles THEN Append(models, NewModel(path = "started"))
                   ELSE models
      /\ UNCHANGED <<pretrained_model, train_dataset, hyperparameters, ui_queue,
                     relayVars, tabsVars>>
      /\ IF path = "started"
         THEN /\ batch_progress_bar' = setMaximum(batch_progress_bar, DatasetLen(train_dataset))
              /\ epoch_progress_bar' =
                     setValue(setMaximum(epoch_progress_bar, Epochs(hyperparameters)), 0)
              /\ training_output_textbox' = << >>
              /\ fit_workers' = [fit_workers EXCEPT ![run] = NewWorker(model)]
              /\ nruns' = run
              /\ SetStatus(Running, train_dataset)
              /\ last' = [Done("start_training", run, path, "",
                               (IF compiles THEN << "status=Stopped" >> ELSE << >>)
                               \o << "status=Running", "worker.start",
                                     "emit training_started" >>, {})
                          EXCEPT !.pre_status = training_status]
         ELSE /\ training_output_textbox' =
                     IF path = "not_ready" THEN setPlainText(input_message)
                     ELSE training_output_textbox
              /\ last' = [Done("start_training", 0, path, StartRaised(path),
                               << >>, {})
                          EXCEPT !.pre_status = training_status]
              /\ UNCHANGED <<batch_progress_bar, epoch_progress_bar, fit_workers,
                             nruns, statusVars>>

\* SignalsCallback.stop_model on every callback connected to training_stopped:
\* self.model.stop_training = True, an AttributeError while self.model is None
StopModels ==
    [m \in DOMAIN models |->
        IF \E r \in 1..nruns : fit_workers[r].cb_model = m
        THEN [models[m] EXCEPT !.stop_training = TRUE]
        ELSE models[m]]

StopSlotErrors == {r \in 1..nruns : fit_workers[r].cb_model = 0}

\* pcs of a worker whose thread has started and whose fit has not ended
ActivePcs == {"started", "fit_init", "epoch_head", "batch_head", "epoch_end",
              "train_end"}

\* body of stop_training: status setter, then training_stopped.emit()
StopTrainingBody ==
    /\ SetStatus(Stopped, train_dataset)
    /\ models' = StopModels

\* stop_training (the Stop button's clicked signal is connected to it)
stop_training ==
      /\ StopTrainingBody
      /\ last' = Done("stop_training", 0, "", "",
                      << "status=Stopped", "emit training_stopped" >>,
                      StopSlotErrors)
      /\ UNCHANGED <<relayVars, tabsVars, pretrained_model, train_dataset, hyperparameters,
                     trained_model, batch_progress_bar, epoch_progress_bar,
                     training_output_textbox, fit_workers, nruns, ui_queue>>

-----------------------------------------------------------------------------
(* FitWorker.run: keras' Model.fit on the worker thread                    *)

\* the signals start_training connects a closure to (epoch_end has none)
ConnectedSignals == {"epoch_begin", "train_batch_end", "train_end"}

\* the queued slot invocations the emissions of run r's callback post to the
\* UI thread
Post(r, sigs) ==
    LET connected(s) == s.sig \in ConnectedSignals
        kept == SelectSeq(sigs, connected)
    IN  [i \in 1..Len(kept) |->
            [run |-> r, sig |-> kept[i].sig, args |-> kept[i].args]]

workerFrame == <<pretrained_model, train_dataset, hyperparameters, trained_model,
                 statusVars, batch_progress_bar, epoch_progress_bar,
                 training_output_textbox, nruns, relayVars, tabsVars>>

\* no UI-thread handler runs in a step of a worker thread
Idle == Done("", 0, "", "", << >>, {})

\* run(): self.__model.fit(...).  With no model, or a model that was never
\* compiled, the call raises in the thread; otherwise fit hands the model to
\* the callback (Callback.set_model)
fit_set_model ==
    \E r \in 1..nruns :
      LET w == fit_workers[r] IN
      /\ w.pc = "started"
      /\ fit_workers' = [fit_workers EXCEPT ![r] =
            IF w.model = 0 \/ ~models[w.model].compiled
            THEN [w EXCEPT !.pc = "failed"]
            ELSE [w EXCEPT !.pc = "fit_init", !.cb_model = w.model]]
      /\ last' = Idle
      /\ UNCHANGED <<workerFrame, models, ui_queue>>

\* fit: model.stop_training = False before the first epoch
fit_reset_stop ==
    \E r \in 1..nruns :
      LET w == fit_workers[r] IN
      /\ w.pc = "fit_init"
      /\ models' = [models EXCEPT ![w.model].stop_training = FALSE]
      /\ fit_workers' = [fit_workers EXCEPT ![r].pc = "epoch_head"]
      /\ last' = Idle
      /\ UNCHANGED <<workerFrame, ui_queue>>

\* fit: callbacks.on_epoch_begin(epoch)
fit_epoch_begin ==
    \E r \in 1..nruns :
      LET w == fit_workers[r] IN
      /\ w.pc = "epoch_head"
      /\ ui_queue' = ui_queue \o Post(r, on_epoch_begin(w.epoch, "logs"))
      /\ fit_workers' = [fit_workers EXCEPT ![r] =
            [w EXCEPT !.pc = IF DatasetLen(w.ds) = 0 THEN "epoch_end" ELSE "batch_head",
                      !.batch = 0]]
      /\ last' = Idle
      /\ UNCHANGED <<workerFrame, models>>

\* fit: one training step, callbacks.on_train_batch_end(batch), then the
\* check of model.stop_training
fit_train_batch ==
    \E r \in 1..nruns :
      LET w == fit_workers[r] IN
      /\ w.pc = "batch_head"
      /\ ui_queue' = ui_queue \o
            Post(r, on_train_batch_end(w.batch, "logs", DefaultBatchesBetweenUpdates))
      /\ fit_workers' = [fit_workers EXCEPT ![r] =
            IF models[w.model].stop_training \/ w.batch + 1 >= DatasetLen(w.ds)
            THEN [w EXCEPT !.pc = "epoch_end"]
            ELSE [w EXCEPT !.batch = w.batch + 1]]
      /\ last' = Idle
      /\ UNCHANGED <<workerFrame, models>>

\* fit: callbacks.on_epoch_end(epoch), then the check of model.stop_training
fit_epoch_end ==
    \E r \in 1..nruns :
      LET w == fit_workers[r] IN
      /\ w.pc = "epoch_end"
      /\ ui_queue' = ui_queue \o Post(r, on_epoch_end(w.epoch, "logs"))
      /\ fit_workers' = [fit_workers EXCEPT ![r] =
            IF models[w.model].stop_training \/ w.epoch + 1 >= Epochs(w.hp)
            THEN [w EXCEPT !.pc = "train_end"]
            ELSE [w EXCEPT !.pc = "epoch_head", !.epoch = w.epoch + 1]]
      /\ last' = Idle
      /\ UNCHANGED <<workerFrame, models>>

\* fit: callbacks.on_train_end(); fit returns and the thread finishes
fit_train_end ==
    \E r \in 1..nruns :
      LET w == fit_workers[r] IN
      /\ w.pc = "train_end"
      /\ ui_queue' = ui_queue \o Post(r, on_train_end("logs"))
      /\ fit_workers' = [fit_workers EXCEPT ![r].pc = "ended"]
      /\ last' = Idle
      /\ UNCHANGED <<workerFrame, models>>

-----------------------------------------------------------------------------
(* The closures of start_training, run by the UI thread's event loop       *)

\* f"==== Epoch {epoch + 1}/{total_train_epochs} ===="
EpochMessage(epoch, total_train_epochs) ==
    "==== Epoch " \o ToString(epoch + 1) \o "/" \o ToString(total_train_epochs)
    \o " ===="

\* f'{logs["batch"]}/{total_train_batches}' followed by the metrics of logs
\* (logs["batch"] is the batch index; the metric values are left abstract)
BatchMessage(batch, total_train_batches) ==
    ToString(batch) \o "/" \o ToString(total_train_batches) \o " - metrics"

\* epoch_begin_update(epoch, logs)
epoch_begin_update ==
    /\ ui_queue # << >>
    /\ Head(ui_queue).sig = "epoch_begin"
    /\ LET ev == Head(ui_queue)
           w == fit_workers[ev.run]
       IN  /\ training_output_textbox' =
                Append(training_output_textbox, EpochMessage(ev.args[1], Epochs(w.hp)))
           /\ epoch_progress_bar' = setValue(epoch_progress_bar, ev.args[1])
           /\ last' = Done("epoch_begin_update", ev.run, "", "", << >>, {})
    /\ ui_queue' = Tail(ui_queue)
    /\ UNCHANGED <<relayVars, tabsVars, pretrained_model, train_dataset, hyperparameters,
                   trained_model, statusVars, batch_progress_bar, models,
                   fit_workers, nruns>>

\* batch_end_update(batch, logs)
batch_end_update ==
    /\ ui_queue # << >>
    /\ Head(ui_queue).sig = "train_batch_end"
    /\ LET ev == Head(ui_queue)
           w == fit_workers[ev.run]
       IN  /\ batch_progress_bar' = setValue(batch_progress_bar, ev.args[1])
           /\ training_output_textbox' =
                Append(training_output_textbox, BatchMessage(ev.args[1], DatasetLen(w.ds)))
           /\ last' = Done("batch_end_update", ev.run, "", "", << >>, {})
    /\ ui_queue' = Tail(ui_queue)
    /\ UNCHANGED <<relayVars, tabsVars, pretrained_model, train_dataset, hyperparameters,
                   trained_model, statusVars, epoch_progress_bar, models,
                   fit_workers, nruns>>

train_end_update_no_stop ==
    /\ ui_queue # << >>
    /\ Head(ui_queue).sig = "train_end"
    /\ batch_progress_bar' = setValue(batch_progress_bar, batch_progress_bar.maximum)
    /\ epoch_progress_bar' = setValue(epoch_progress_bar, epoch_progress_bar.maximum)
    /\ last' = Done("train_end_update", Head(ui_queue).run, "", "", << >>, {})
    /\ ui_queue' = Tail(ui_queue)
    /\ UNCHANGED <<relayVars, tabsVars, pretrained_model, train_dataset, hyperparameters,
                   trained_model, training_output_textbox, nruns, statusVars,
                   models, fit_workers>>

\* train_end_update(logs): both bars to their maximum, then stop_training()
train_end_update ==
    /\ ui_queue # << >>
    /\ Head(ui_queue).sig = "train_end"
    /\ batch_progress_bar' = setValue(batch_progress_bar, batch_progress_bar.maximum)
    /\ epoch_progress_bar' = setValue(epoch_progress_bar, epoch_progress_bar.maximum)
    /\ StopTrainingBody
    /\ last' = Done("train_end_update", Head(ui_queue).run, "", "",
                    << "status=Stopped", "emit training_stopped" >>, StopSlotErrors)
    /\ ui_queue' = Tail(ui_queue)
    /\ UNCHANGED <<relayVars, tabsVars, pretrained_model, train_dataset, hyperparameters,
                   trained_model, training_output_textbox, fit_workers, nruns>>

-----------------------------------------------------------------------------
(* SignalsCallback driven by a training loop: the callbacks delivered and  *)
(* the signals emitted, in order                                           *)

RelayEpochs == {0, 1}
RelayBatches == {0, 1, 99, 100, 101, 200}
RelayLogs == {"logs_a", "logs_b"}

InitRelay == delivered = << >> /\ emitted = << >>

relay_epoch_begin ==
    \E epoch \in RelayEpochs, logs \in RelayLogs :
        /\ Len(delivered) < MaxCallbacks
        /\ delivered' = Append(delivered, [cb |-> "on_epoch_begin", args |-> <<epoch, logs>>])
        /\ emitted' = emitted \o on_epoch_begin(epoch, logs)
        /\ UNCHANGED <<consoleVars, tabsVars>>

relay_epoch_end ==
    \E epoch \in RelayEpochs, logs \in RelayLogs :
        /\ Len(delivered) < MaxCallbacks
        /\ delivered' = Append(delivered, [cb |-> "on_epoch_end", args |-> <<epoch, logs>>])
        /\ emitted' = emitted \o on_epoch_end(epoch, logs)
        /\ UNCHANGED <<consoleVars, tabsVars>>

relay_train_batch_end ==
    \E batch \in RelayBatches, logs \in RelayLogs :
        /\ Len(delivered) < MaxCallbacks
        /\ delivered' = Append(delivered, [cb |-> "on_train_batch_end", args |-> <<batch, logs>>])
        /\ emitted' = emitted \o
                on_train_batch_end(batch, logs, DefaultBatchesBetweenUpdates)
        /\ UNCHANGED <<consoleVars, tabsVars>>

relay_train_end ==
    \E logs \in RelayLogs :
        /\ Len(delivered) < MaxCallbacks
        /\ delivered' = Append(delivered, [cb |-> "on_train_end", args |-> <<logs>>])
        /\ emitted' = emitted \o on_train_end(logs)
        /\ UNCHANGED <<consoleVars, tabsVars>>

-----------------------------------------------------------------------------
(* TrainTestTabs                                                           *)

TabDatasets == {"dsA", "dsB"}

\* DatasetTableModel.load_dataset / .dataset: the model keeps the dataset
\* it was given
load_dataset(model_dataset, dataset) == dataset

\* TrainTestTabs.__init__: two fresh DatasetTableModels
NewTabs == [train |-> None, test |-> None]

\* train_dataset() / test_dataset()
tabs_train_dataset(t) == t.train
tabs_test_dataset(t) == t.test

\* __getstate__
getstate(t) == [train_dataset |-> t.train, test_dataset |-> t.test]

setstate_swapped(t, new_state) ==
    [train |-> load_dataset(t.train, new_state.test_dataset),
     test |-> load_dataset(t.test, new_state.train_dataset)]

\* __setstate__: set_train_dataset(new_state["train_dataset"]), then
\* set_test_dataset(new_state["test_dataset"])
setstate(t, new_state) ==
    [train |-> load_dataset(t.train, new_state.train_dataset),
     test |-> load_dataset(t.test, new_state.test_dataset)]

InitTabs ==
    /\ tabs = NewTabs
    /\ pickled = [made |-> FALSE, state |-> getstate(NewTabs), of |-> NewTabs]
    /\ rebuilt = [made |-> FALSE, widget |-> NewTabs, of |-> NewTabs]

\* TrainTestTabs.set_train_dataset
tabs_set_train_dataset ==
    \E d \in TabDatasets :
        /\ tabs' = [tabs EXCEPT !.train = load_dataset(tabs.train, d)]
        /\ UNCHANGED <<pickled, rebuilt, consoleVars, relayVars>>

\* TrainTestTabs.set_test_dataset
tabs_set_test_dataset ==
    \E d \in TabDatasets :
        /\ tabs' = [tabs EXCEPT !.test = load_dataset(tabs.test, d)]
        /\ UNCHANGED <<pickled, rebuilt, consoleVars, relayVars>>

\* __reduce__: (TrainTestTabs, (DatasetTableMVFactory(),), self.__getstate__());
\* `of` remembers the datasets the reduced widget held
tabs_reduce ==
    /\ pickled' = [made |-> TRUE, state |-> getstate(tabs), of |-> tabs]
    /\ UNCHANGED <<tabs, rebuilt, consoleVars, relayVars>>

\* unpickling: TrainTestTabs(DatasetTableMVFactory()), then __setstate__(state)
tabs_rebuild ==
    /\ pickled.made
    /\ rebuilt' = [made |-> TRUE, widget |-> setstate(NewTabs, pickled.state),
                   of |-> pickled.of]
    /\ UNCHANGED <<tabs, pickled, consoleVars, relayVars>>

-----------------------------------------------------------------------------
(* Specifications                                                          *)

Init == InitConsole /\ InitRelay /\ InitTabs

Next ==
    \/ \E d \in Datasets \cup {None} : set_train_dataset(d)
    \/ \E p \in PretrainedModels \cup {None} : set_pretrained_model(p)
    \/ \E h \in Hyperparameters \cup {None} : set_hyperparameters(h)
    \/ start_training(MaxRuns, MaxModels)
    \/ stop_training
    \/ fit_set_model
    \/ fit_reset_stop
    \/ fit_epoch_begin
    \/ fit_train_batch
    \/ fit_epoch_end
    \/ fit_train_end
    \/ epoch_begin_update
    \/ batch_end_update
    \/ train_end_update

\* Every operation of the console, with every input.  The claims are settled
\* under the specifications below, which bound the same actions further:
\* SpecCalls (every input, method calls only), SpecTraining (valid inputs,
\* worker threads and event loop) and SpecFair (SpecTraining's threads under
\* fairness)
Spec == Init /\ [][Next]_vars

\* The calls of the widget's methods alone: the behaviours in which no
\* worker thread has been scheduled yet
NextCalls ==
    \/ \E d \in Datasets \cup {None} : set_train_dataset(d)
    \/ \E p \in PretrainedModels \cup {None} : set_pretrained_model(p)
    \/ \E h \in Hyperparameters \cup {None} : set_hyperparameters(h)
    \/ start_training(CallsMaxRuns, CallsMaxModels)
    \/ stop_training

SpecCalls == Init /\ [][NextCalls]_vars

\* Training with valid inputs: the state after construction,
\* set_train_dataset("ds"), set_pretrained_model("pm") and
\* set_hyperparameters("hp2")
InitTraining ==
    /\ pretrained_model = "pm"
    /\ train_dataset = "ds"
    /\ hyperparameters = "hp2"
    /\ trained_model = 0
    /\ training_status = Not_Compiled
    /\ start_training_button = TRUE
    /\ stop_training_button = TRUE
    /\ status_label = ""
    /\ batch_progress_bar = [maximum |-> 100, value |-> -1]
    /\ epoch_progress_bar = [maximum |-> 100, value |-> -1]
    /\ training_output_textbox = << >>
    /\ models = << >>
    /\ fit_workers = [r \in 1..(MaxRuns) |->
                        [pc |-> "unborn", model |-> 0, ds |-> None, hp |-> None,
                         cb_model |-> 0, epoch |-> 0, batch |-> 0]]
    /\ nruns = 0
    /\ ui_queue = << >>
    /\ last = Done("set_hyperparameters", 0, "", "", << >>, {})
    /\ InitRelay /\ InitTabs

NextTraining ==
    \/ \E h \in {"hp1", "hp2"} : set_hyperparameters(h)
    \/ start_training(MaxRuns, MaxModels)
    \/ stop_training
    \/ fit_set_model
    \/ fit_reset_stop
    \/ fit_epoch_begin
    \/ fit_train_batch
    \/ fit_epoch_end
    \/ fit_train_end
    \/ epoch_begin_update
    \/ batch_end_update
    \/ train_end_update

SpecTraining == InitTraining /\ [][NextTraining]_vars

\* Fair training: worker threads keep running and the UI thread's event loop
\* keeps delivering the queued slot invocations; nothing obliges the user to
\* call a method
FitStep ==
    \/ fit_set_model \/ fit_reset_stop \/ fit_epoch_begin
    \/ fit_train_batch \/ fit_epoch_end \/ fit_train_end

HandleEvent == epoch_begin_update \/ batch_end_update \/ train_end_update

NextFair ==
    \/ start_training(FairMaxRuns, FairMaxModels)
    \/ stop_training
    \/ fit_set_model
    \/ fit_reset_stop
    \/ fit_epoch_begin
    \/ fit_train_batch
    \/ fit_epoch_end
    \/ fit_train_end
    \/ epoch_begin_update
    \/ batch_end_update
    \/ train_end_update

SpecFair ==
    /\ InitTraining
    /\ [][NextFair]_vars
    /\ WF_vars(FitStep)
    /\ WF_vars(HandleEvent)

-----------------------------------------------------------------------------
\* pcs of a worker that is executing Model.fit
FitPcs == {"fit_init", "epoch_head", "batch_head", "epoch_end", "train_end"}

TrainEndRelayed(r) ==
    \E i \in 1..Len(ui_queue) : ui_queue[i].run = r /\ ui_queue[i].sig = "train_end"

TrainEndHandled(r) ==
    /\ last.op = "train_end_update" /\ last.run = r
    /\ batch_progress_bar.value = batch_progress_bar.maximum
    /\ epoch_progress_bar.value = epoch_progress_bar.maximum
    /\ training_status = Stopped
    /\ \E i \in 1..Len(last.effects) : last.effects[i] = "emit training_stopped"

\* C8: a run whose fit is executing, or whose train_end has been relayed, is
\* eventually followed by the train_end_update of that run: both progress
\* bars at their maximum, status Stopped, training_stopped emitted
C8_EndOfTraining ==
    \A r \in 1..MaxRuns :
        (fit_workers[r].pc \in FitPcs \/ TrainEndRelayed(r)) ~> TrainEndHandled(r)

\* C8 witness: the train_end of a run has just been handled
C8_Witness == \E r \in 1..MaxRuns : TrainEndHandled(r)

-----------------------------------------------------------------------------
(* The other specifications                                                *)

NextRelay ==
    \/ relay_epoch_begin
    \/ relay_epoch_end
    \/ relay_train_batch_end
    \/ relay_train_end

SpecRelay == Init /\ [][NextRelay]_vars

NextTabs ==
    \/ tabs_set_train_dataset
    \/ tabs_set_test_dataset
    \/ tabs_reduce
    \/ tabs_rebuild

SpecTabs == Init /\ [][NextTabs]_vars

-----------------------------------------------------------------------------
(* Claims                                                                  *)

\* C1: in every reachable state the widgets match the status: Running =>
\* Start disabled, Stop enabled, label "Running"; Stopped => Start enabled,
\* Stop disabled, label "Stopped"; Not_Compiled => Start enabled, Stop
\* disabled, label "Not Compiled"
C1_WidgetsMatchStatus ==
    /\ training_status = Running =>
          ~start_training_button /\ stop_training_button /\ status_label = "Running"
    /\ training_status = Stopped =>
          start_training_button /\ ~stop_training_button /\ status_label = "Stopped"
    /\ training_status = Not_Compiled =>
          start_training_button /\ ~stop_training_button
          /\ status_label = "Not Compiled"

\* C2: every call of start_training that does not return early (status
\* Stopped, or Not_Compiled followed by a successful compile) sets the status
\* to Running, then starts exactly one new FitWorker that fits the trained
\* model with the train dataset and the hyperparameters' epochs, then emits
\* training_started, and returns
C2_StartTrainingStartsWorker ==
    ( /\ last.op = "start_training"
      /\ last.pre_status \in {Stopped, Not_Compiled}
      /\ last.path \notin {"not_ready", "build_raised", "compile_raised"} )
    => /\ last.raised = ""
       /\ last.path = "started"
       /\ Len(last.effects) >= 3
       /\ SubSeq(last.effects, Len(last.effects) - 2, Len(last.effects))
            = << "status=Running", "worker.start", "emit training_started" >>
       /\ last.run = nruns
       /\ training_status = Running
       /\ trained_model # 0
       /\ fit_workers[nruns] = NewWorker(trained_model)

\* C3: a stop_training call made while a worker has been started and its fit
\* has not ended reaches that worker's model: no stop_model slot fails and
\* the stop_training flag of the model the worker fits is set
C3_StopReachesWorker ==
    [][ stop_training =>
          \A r \in 1..nruns :
             (fit_workers[r].pc \in ActivePcs /\ fit_workers[r].model # 0) =>
                /\ r \notin last'.slot_errors
                /\ models'[fit_workers[r].model].stop_training ]_vars

\* the inputs that are unset or empty, stated on the values themselves
MissingInputs ==
    {i \in {"train_dataset", "pretrained_model", "hyperparameters"} :
        \/ i = "train_dataset" /\ train_dataset = None
        \/ i = "pretrained_model" /\ pretrained_model = None
        \/ i = "hyperparameters" /\ hyperparameters \in {None, "hp0"}}

NonEmptyLines(lines) == SelectSeq(lines, LAMBDA l : l # "")

\* C4: start_training called with status Not_Compiled and at least one input
\* unset or empty returns without starting a FitWorker, without emitting a
\* signal and with the status, the trained model and the progress bars
\* unchanged; the textbox lists one message line per missing input
C4_InputValidation ==
    [][ ( /\ training_status = Not_Compiled
          /\ MissingInputs # {}
          /\ start_training(CallsMaxRuns, CallsMaxModels) )
        => /\ last'.path = "not_ready" /\ last'.raised = "" /\ last'.effects = << >>
           /\ nruns' = nruns /\ fit_workers' = fit_workers
           /\ training_status' = training_status
           /\ trained_model' = trained_model /\ models' = models
           /\ batch_progress_bar' = batch_progress_bar
           /\ epoch_progress_bar' = epoch_progress_bar
           /\ Len(NonEmptyLines(training_output_textbox')) = Cardinality(MissingInputs)
           /\ ("train_dataset" \in MissingInputs) <=>
                 (\E i \in 1..Len(training_output_textbox') :
                    training_output_textbox'[i] = "> Training dataset not specified")
           /\ ("pretrained_model" \in MissingInputs) <=>
                 (\E i \in 1..Len(training_output_textbox') :
                    training_output_textbox'[i] = "> Model not specified.")
           /\ ("hyperparameters" \in MissingInputs) <=>
                 (\E i \in 1..Len(training_output_textbox') :
                    training_output_textbox'[i] = "> Hyperparameters not specified.")
      ]_vars

\* C4 witness: start_training has just refused to start with two inputs
\* missing and a previously compiled model still in place
C4_Witness ==
    /\ last.op = "start_training" /\ last.path = "not_ready"
    /\ training_status = Not_Compiled
    /\ Cardinality(MissingInputs) = 2
    /\ Len(NonEmptyLines(training_output_textbox)) = 2
    /\ trained_model # 0

\* C5: when all inputs are set and building or compiling the model raises,
\* compile_model propagates no exception and leaves the status Not_Compiled,
\* and start_training starts no FitWorker and emits nothing
C5_CompileFailureContained ==
    (last.op = "start_training" /\ last.path \in {"build_raised", "compile_raised"})
    => /\ last.raised = ""
       /\ training_status = Not_Compiled
       /\ last.effects = << >>

\* C6: get_trained_model returns a model only if a training run on that
\* model has been started and has ended
C6_TrainedModelWasTrained ==
    get_trained_model # 0 =>
        \E r \in 1..nruns :
            fit_workers[r].model = get_trained_model /\ fit_workers[r].pc = "ended"

\* the signals the delivered callbacks must have produced, stated on the
\* callbacks themselves
ExpectedSignal(c) ==
    CASE c.cb = "on_epoch_begin" -> << [sig |-> "epoch_begin", args |-> c.args] >>
      [] c.cb = "on_epoch_end" -> << [sig |-> "epoch_end", args |-> c.args] >>
      [] c.cb = "on_train_end" -> << [sig |-> "train_end", args |-> c.args] >>
      [] c.cb = "on_train_batch_end" ->
            IF \E k \in 0..2 : c.args[1] = k * 100
            THEN << [sig |-> "train_batch_end", args |-> c.args] >>
            ELSE << >>

RECURSIVE ExpectedSignals(_)
ExpectedSignals(cbs) ==
    IF cbs = << >> THEN << >>
    ELSE ExpectedSignal(Head(cbs)) \o ExpectedSignals(Tail(cbs))

\* C7: on_epoch_begin, on_epoch_end and on_train_end each emit exactly one
\* signal with the same arguments, on_train_batch_end emits train_batch_end
\* iff the batch is a multiple of 100, and the signals are emitted in the
\* order of the callbacks
C7_ProgressRelay == emitted = ExpectedSignals(delivered)

\* C7 witness: a batch that is a positive multiple of 100 was relayed, one
\* that is not was dropped, and an epoch signal followed
C7_Witness ==
    /\ Len(delivered) = 3 /\ Len(emitted) = 2
    /\ delivered[1].cb = "on_train_batch_end" /\ delivered[1].args[1] = 100
    /\ delivered[2].cb = "on_train_batch_end" /\ delivered[2].args[1] = 101
    /\ delivered[3].cb = "on_epoch_end"
    /\ emitted[1].sig = "train_batch_end" /\ emitted[2].sig = "epoch_end"

C10_OneWorkerFitting ==
    Cardinality({r \in 1..nruns : fit_workers[r].pc \in FitPcs}) <= 1

\* C11: every FitWorker is started with a compiled model: in the state right
\* after start_training has started a FitWorker, the trained model is not
\* None and has been compiled, and the train dataset, the pretrained model
\* and the hyperparameters are all set
C11_WorkerStartedWithCompiledModel ==
    (last.op = "start_training" /\ last.path = "started") =>
        /\ trained_model # 0
        /\ fit_workers[last.run].model # 0
        /\ models[fit_workers[last.run].model].compiled
        /\ Truthy(train_dataset)
        /\ Truthy(pretrained_model)
        /\ Truthy(hyperparameters)

\* C12: no stale model is trained: in the state right after start_training
\* has started a FitWorker, the model that worker trains (when there is one)
\* was compiled from the pretrained model, the train dataset and the
\* hyperparameters that are set now, that is, from the values of the latest
\* set_train_dataset, set_pretrained_model and set_hyperparameters calls
C12_NoStaleModelTrained ==
    (last.op = "start_training" /\ last.path = "started"
     /\ fit_workers[last.run].model # 0) =>
        LET m == models[fit_workers[last.run].model] IN
        /\ m.pm = pretrained_model
        /\ m.ds = train_dataset
        /\ m.hp = hyperparameters

\* C13: the status reflects the worker: in every reachable state, if a
\* FitWorker is executing Model.fit then the training status is Running
C13_StatusReflectsWorker ==
    (\E r \in 1..nruns : fit_workers[r].pc \in FitPcs) => training_status = Running
====
